---- MODULE Spec2Model ----
(***************************************************************************)
(* Model of restore/utils.py: Fourier-domain resampling (get_mic_freqs,    *)
(* bin_mic, fourier_crop, unbin_mic, fourier_pad_to_shape, next32) and     *)
(* patch-based estimators (get_patches, get_patch_CC, get_SNR, get_SSNR).  *)
(*                                                                         *)
(* Conventions.                                                            *)
(*  - An array is a record [shape |-> <<rows, cols>>, data |-> rows of     *)
(*    cells]; index i of the code (0-based) is index i+1 of the sequence.  *)
(*  - A frequency is an exact rational <<num, den>> with den > 0; float    *)
(*    rounding is not modelled.  The field returned by get_mic_freqs holds *)
(*    magnitudes s = sqrt(x^2+y^2); it is represented by s^2, and every    *)
(*    comparison s < cutoff is decided exactly on the squares.             *)
(*  - An image is known by its shape only; a spectrum cell is the tag      *)
(*    <<i, j>> of the coefficient of the source transform it holds (an     *)
(*    elementwise product keeps the tag), or Zero for a cell of np.zeros.  *)
(***************************************************************************)
EXTENDS Integers, Sequences, FiniteSets, TLC

VARIABLES
    \* ---- resampling (bin_mic / unbin_mic)
    mic,          \* shape <<H, W>> of the micrograph handed to bin_mic
    apix,         \* pixel size
    cutoff,       \* cutoff frequency, a rational <<num, den>>
    freq_h,       \* get_mic_freqs: the axis rfftfreq(n_y, d=apix)
    freq_v,       \* get_mic_freqs: the axis fftfreq(n_x, d=apix)
    mic_freqs,    \* the field a caller precomputed with get_mic_freqs, or None
    mic_bin,      \* outcome of bin_mic
    unbin_src,    \* which image unbin_mic was given: "mic_bin" or "mic"
    unbin_shape,  \* the unbin_shape argument of unbin_mic
    mic_unbin,    \* outcome of unbin_mic
    \* ---- patches and estimators
    call,         \* the pending call: function name and arguments
    ret,          \* its outcome
    \* ---- next32
    n0,           \* the arguments of two successive calls of next32
    n,            \* the running value of n in the current call
    k,            \* which call is running (1, 2), 3 when both returned
    out           \* the values returned so far

vars == <<mic, apix, cutoff, freq_h, freq_v, mic_freqs, mic_bin, unbin_src,
          unbin_shape, mic_unbin, call, ret, n0, n, k, out>>

resampleVars == <<mic, apix, cutoff, freq_h, freq_v, mic_freqs, mic_bin,
                  unbin_src, unbin_shape, mic_unbin>>
patchVars == <<call, ret>>
next32Vars == <<n0, n, k, out>>

\* ------------------------------------------------------------- bounds
MaxDim == 5        \* image sides of the resampling model are 1..MaxDim
MaxApix == 2       \* pixel sizes are 1..MaxApix
CutoffDen == 8     \* cutoffs are multiples of 1/CutoffDen ...
MaxCutoffNum == 5  \* ... from -1/CutoffDen to MaxCutoffNum/CutoffDen

\* ------------------------------------------------------------- helpers
Min(a, b) == IF a < b THEN a ELSE b
Max(a, b) == IF a > b THEN a ELSE b

None == [given |-> FALSE, shape |-> <<0, 0>>, data |-> <<>>]
NoResult == [status |-> "none"]
Zero == <<-1, -1>>

\* Python's normalisation of a slice bound k on an axis of length len.
PyIdx(i, len) == IF i < 0 THEN Max(i + len, 0) ELSE Min(i, len)

\* a[r0:r1, c0:c1]
Slice(a, r0, r1, c0, c1) ==
    LET R0 == PyIdx(r0, a.shape[1])
        R1 == PyIdx(r1, a.shape[1])
        C0 == PyIdx(c0, a.shape[2])
        C1 == PyIdx(c1, a.shape[2])
        nr == Max(R1 - R0, 0)
        nc == Max(C1 - C0, 0)
    IN [shape |-> <<nr, nc>>,
        data |-> [i \in 1..nr |-> [j \in 1..nc |-> a.data[R0 + i][C0 + j]]]]

\* a[r0:r1, c0:c1] = val, with numpy's broadcasting of val to the slice.
SetSlice(a, r0, r1, c0, c1, val) ==
    LET R0 == PyIdx(r0, a.shape[1])
        R1 == PyIdx(r1, a.shape[1])
        C0 == PyIdx(c0, a.shape[2])
        C1 == PyIdx(c1, a.shape[2])
        nr == Max(R1 - R0, 0)
        nc == Max(C1 - C0, 0)
        vr == val.shape[1]
        vc == val.shape[2]
        fits == (vr = nr \/ vr = 1) /\ (vc = nc \/ vc = 1)
        src(i, j) == val.data[IF vr = 1 THEN 1 ELSE i][IF vc = 1 THEN 1 ELSE j]
    IN IF ~fits THEN [ok |-> FALSE, arr |-> a]
       ELSE [ok |-> TRUE,
             arr |-> [shape |-> a.shape,
                      data |-> [i \in 1..a.shape[1] |-> [j \in 1..a.shape[2] |->
                          IF i > R0 /\ i <= R0 + nr /\ j > C0 /\ j <= C0 + nc
                          THEN src(i - R0, j - C0)
                          ELSE a.data[i][j]]]]]

\* np.vstack((a, b)) of two arrays with the same number of columns
vstack(a, b) ==
    [shape |-> <<a.shape[1] + b.shape[1], a.shape[2]>>,
     data |-> a.data \o b.data]

\* np.zeros(shape)
zeros(shape) ==
    [shape |-> shape,
     data |-> [i \in 1..shape[1] |-> [j \in 1..shape[2] |-> Zero]]]

\* numpy.fft.rfftfreq(m, d): arange(0, m//2 + 1) / (m*d)
rfftfreq(m, d) == [j \in 1..(m \div 2 + 1) |-> <<j - 1, m * d>>]

\* A centred (unwrapped) axis, arange(-(m//2), (m-1)//2 + 1) / (m*d): what fftfreq
\* would return if the negative frequencies came first.
fftfreq_centred(m, d) ==
    [i \in 1..m |-> <<(i - 1) - (m \div 2), m * d>>]

\* numpy.fft.fftfreq(m, d): concatenate(arange(0, N), arange(-(m//2), 0)) / (m*d)
\* with N = (m-1)//2 + 1
fftfreq(m, d) ==
    LET N == (m - 1) \div 2 + 1
        p1 == [i \in 1..N |-> <<i - 1, m * d>>]
        p2 == [i \in 1..(m \div 2) |-> <<(i - 1) - (m \div 2), m * d>>]
    IN p1 \o p2

\* numpy.fft.rfft2 of an image: the half-spectrum, shape (rows, cols//2 + 1)
rfft2(shape) ==
    [shape |-> <<shape[1], shape[2] \div 2 + 1>>,
     data |-> [i \in 1..shape[1] |-> [j \in 1..(shape[2] \div 2 + 1) |->
                  <<i - 1, j - 1>>]]]

\* numpy.fft.irfft2 of a half-spectrum: an image of shape (rows, 2*(cols-1));
\* numpy raises ValueError when a transform length is below 1.
irfft2(ft) ==
    LET shape == <<ft.shape[1], 2 * (ft.shape[2] - 1)>>
    IN IF shape[1] < 1 \/ shape[2] < 1
       THEN [status |-> "ValueError", shape |-> <<0, 0>>]
       ELSE [status |-> "ok", shape |-> shape]

\* s < c for a squared magnitude s2 = s^2 and a rational c
Less(s2, c) == c[1] > 0 /\ s2[1] * c[2] * c[2] < c[1] * c[1] * s2[2]

\* np.searchsorted(a, v) (side='left'): binary search for the insertion point
RECURSIVE bisect(_, _, _, _)
bisect(a, v, lo, hi) ==
    IF lo >= hi THEN lo
    ELSE LET mid == (lo + hi) \div 2
         IN IF Less(a[mid + 1], v) THEN bisect(a, v, mid + 1, hi)
                                   ELSE bisect(a, v, lo, mid)
searchsorted(a, v) == bisect(a, v, 0, Len(a))

\* ------------------------------------------------------------- get_mic_freqs
\* s = sqrt(x**2 + y**2) over meshgrid(rfftfreq(n_y, d=apix), fftfreq(n_x, d=apix))
meshgrid_norm(x, y) ==
    [given |-> TRUE,
     shape |-> <<Len(y), Len(x)>>,
     data |-> [i \in 1..Len(y) |-> [j \in 1..Len(x) |->
        <<x[j][1] * x[j][1] * y[i][2] * y[i][2] + y[i][1] * y[i][1] * x[j][2] * x[j][2],
          x[j][2] * x[j][2] * y[i][2] * y[i][2]>>]]]

get_mic_freqs(shape, d) == meshgrid_norm(rfftfreq(shape[2], d), fftfreq(shape[1], d))

\* ------------------------------------------------------------- fourier_crop
\* fourier_crop with the bottom band taken as mic_ft[-c_v:, :c_h]
fourier_crop_negative_index(mic_ft, f, c) ==
    LET n_x == mic_ft.shape[1]
        f_h == f.data[1]
        f_v == [i \in 1..PyIdx(n_x \div 2, f.shape[1]) |-> f.data[i][1]]
        c_h == searchsorted(f_h, c)
        c_v == searchsorted(f_v, c)
    IN vstack(Slice(mic_ft, 0, c_v, 0, c_h),
              Slice(mic_ft, -c_v, n_x, 0, c_h))

fourier_crop(mic_ft, f, c) ==
    LET n_x == mic_ft.shape[1]
        f_h == f.data[1]
        f_v == [i \in 1..PyIdx(n_x \div 2, f.shape[1]) |-> f.data[i][1]]
        c_h == searchsorted(f_h, c)
        c_v == searchsorted(f_v, c)
    IN vstack(Slice(mic_ft, 0, c_v, 0, c_h),
              Slice(mic_ft, n_x - c_v, n_x, 0, c_h))

\* ------------------------------------------------------------- bin_mic
\* Python's truth value of the mic_freqs argument (`if mic_freqs:`): None is
\* false; an ndarray of more than one element raises ValueError; an ndarray of
\* one element has the truth value of the element.
truth(f) ==
    IF ~f.given THEN "False"
    ELSE IF f.shape[1] * f.shape[2] > 1 THEN "ValueError"
    ELSE IF f.shape[1] * f.shape[2] = 1 /\ f.data[1][1][1] # 0 THEN "True"
    ELSE "False"

bin_mic(shape, d, c, freqs) ==
    IF truth(freqs) = "ValueError"
    THEN [status |-> "ValueError", at |-> "if mic_freqs", done |-> <<>>,
          crop |-> zeros(<<0, 0>>), shape |-> <<0, 0>>]
    ELSE LET f == IF truth(freqs) = "True" THEN freqs ELSE get_mic_freqs(shape, d)
             mic_ft == rfft2(shape)
             crop == fourier_crop(mic_ft, f, c)
             img == irfft2(crop)
         IN [status |-> img.status,
             at |-> IF img.status = "ok" THEN "" ELSE "irfft2",
             done |-> <<"rfft2", "lowpass", "fourier_crop">>,
             crop |-> crop, shape |-> img.shape]

\* ------------------------------------------------------------- fourier_pad_to_shape
fourier_pad_to_shape(mic_ft, new_shape) ==
    LET n_x == mic_ft.shape[1]
        n_y == mic_ft.shape[2]
        top == Slice(mic_ft, 0, n_x \div 2, 0, n_y)
        bottom == Slice(mic_ft, n_x \div 2, n_x, 0, n_y)
        s1 == SetSlice(zeros(new_shape), 0, n_x \div 2, 0, n_y, top)
        s2 == SetSlice(s1.arr, new_shape[1] - n_x \div 2, new_shape[1], 0, n_y, bottom)
    IN IF ~s1.ok \/ ~s2.ok
       THEN [status |-> "ValueError", pad |-> zeros(<<0, 0>>)]
       ELSE [status |-> "ok", pad |-> s2.arr]

\* ------------------------------------------------------------- unbin_mic
unbin_mic(shape, target) ==
    LET s_x == Len(fftfreq(target[1], 1))
        s_y == Len(rfftfreq(target[2], 1))
        mic_ft == rfft2(shape)
        padded == fourier_pad_to_shape(mic_ft, <<s_x, s_y>>)
        img == irfft2(padded.pad)
    IN IF padded.status # "ok"
       THEN [status |-> "ValueError", src |-> mic_ft, pad |-> padded.pad, shape |-> <<0, 0>>]
       ELSE [status |-> img.status, src |-> mic_ft, pad |-> padded.pad, shape |-> img.shape]

\* ------------------------------------------------------------- get_patches
PatchW == 192      \* default patch size of get_patches
SSNRPatchW == 256  \* patch size used by get_SSNR
MaxPatchDim == 6   \* image sides of direct get_patches calls are 1..MaxPatchDim
MaxW == 3          \* their patch sizes are 1..MaxW
OverlapDen == 2    \* their overlaps are 0/OverlapDen .. OverlapDen/OverlapDen

\* int(w*(1-overlap)) for overlap = a/b: truncation toward zero
int_step(w, overlap) ==
    LET num == w * (overlap[2] - overlap[1])
    IN IF num >= 0 THEN num \div overlap[2] ELSE -((-num) \div overlap[2])

\* np.arange(start, stop, step) for a step that is not 0
RECURSIVE arange(_, _, _)
arange(start, stop, step) ==
    IF (step > 0 /\ start >= stop) \/ (step < 0 /\ start <= stop) THEN <<>>
    ELSE <<start>> \o arange(start + step, stop, step)

\* The pairs of product(X, Y) with the second sequence as the outer loop
product_inner_first(X, Y) ==
    [i \in 1..(Len(X) * Len(Y)) |->
        <<X[((i - 1) % Len(X)) + 1], Y[((i - 1) \div Len(X)) + 1]>>]

\* itertools.product(X, Y): the first sequence is the outer loop
RECURSIVE product(_, _)
product(X, Y) ==
    IF X = <<>> THEN <<>>
    ELSE [j \in 1..Len(Y) |-> <<Head(X), Y[j]>>] \o product(Tail(X), Y)

\* img[c0:c0+w, c1:c1+w]: the patch is known by its corner and its shape
patch_at(img, c, w) ==
    [x |-> c[1], y |-> c[2],
     shape |-> <<Max(PyIdx(c[1] + w, img[1]) - PyIdx(c[1], img[1]), 0),
                 Max(PyIdx(c[2] + w, img[2]) - PyIdx(c[2], img[2]), 0)>>]

\* offsets that include the last full patch: np.arange(0, N - w + 1, step)
offsets_inclusive(N, w, overlap) == arange(0, N - w + 1, int_step(w, overlap))

\* the offsets along an axis of length N
offsets(N, w, overlap) == arange(0, N - w, int_step(w, overlap))

get_patches(img, w, overlap) ==
    IF int_step(w, overlap) = 0
    THEN [status |-> "ZeroDivisionError", X_cd |-> <<>>, Y_cd |-> <<>>, patches |-> <<>>]
    ELSE LET X_cd == offsets(img[1], w, overlap)
             Y_cd == offsets(img[2], w, overlap)
             cs == product(X_cd, Y_cd)
         IN [status |-> "ok", X_cd |-> X_cd, Y_cd |-> Y_cd,
             patches |-> [i \in 1..Len(cs) |-> patch_at(img, cs[i], w)]]

\* ------------------------------------------------------------- estimators
\* np.mean([get_CC(patches1[i], patches2[i]) for i in range(len(patches1))]):
\* indexing patches2 past its end raises IndexError; the mean of an empty list
\* is nan (with a RuntimeWarning), not an error.
get_patch_CC(image1, image2) ==
    LET patches1 == get_patches(image1, PatchW, <<0, 1>>)
        patches2 == get_patches(image2, PatchW, <<0, 1>>)
        n_patches == Len(patches1.patches)
    IN IF n_patches > Len(patches2.patches)
       THEN [status |-> "IndexError", pairs |-> <<>>,
             patches1 |-> patches1, patches2 |-> patches2]
       ELSE [status |-> IF n_patches = 0 THEN "nan" ELSE "ok",
             pairs |-> [i \in 1..n_patches |->
                          <<patches1.patches[i], patches2.patches[i]>>],
             patches1 |-> patches1, patches2 |-> patches2]

\* CC / (1. - CC): float arithmetic, nan propagates
get_SNR(image1, image2) == get_patch_CC(image1, image2)

\* patches1[0][0] raises IndexError on an empty patch array; zip stops at the
\* shorter sequence; the mean over no pairs is nan.
get_SSNR(image1, image2) ==
    LET patches1 == get_patches(image1, SSNRPatchW, <<0, 1>>)
        patches2 == get_patches(image2, SSNRPatchW, <<0, 1>>)
        m == Min(Len(patches1.patches), Len(patches2.patches))
    IN IF Len(patches1.patches) = 0
       THEN [status |-> "IndexError", pairs |-> <<>>,
             patches1 |-> patches1, patches2 |-> patches2]
       ELSE [status |-> IF m = 0 THEN "nan" ELSE "ok",
             pairs |-> [i \in 1..m |-> <<patches1.patches[i], patches2.patches[i]>>],
             patches1 |-> patches1, patches2 |-> patches2]

\* ------------------------------------------------------------- next32
Divisor == 32
MaxAbs == 33       \* arguments of next32 are -MaxAbs..MaxAbs

\* `while n%32 != 0`
loop_test(m) == m % Divisor # 0

\* a loop that steps down: `n -= 1`
loop_body_down(m) == m - 1

\* `n += 1`
loop_body(m) == m + 1

\* ============================================================= state machine
Shapes == (1..MaxDim) \X (1..MaxDim)
Cutoffs == {<<c, CutoffDen>> : c \in -1..MaxCutoffNum}

IdleResample ==
    /\ mic = <<1, 1>> /\ apix = 1 /\ cutoff = <<1, 1>>
    /\ freq_h = <<>> /\ freq_v = <<>> /\ mic_freqs = None
    /\ mic_bin = NoResult /\ unbin_src = "" /\ unbin_shape = <<0, 0>>
    /\ mic_unbin = NoResult

IdlePatches == call = [fn |-> "none"] /\ ret = NoResult

IdleNext32 == n0 = <<0, 0>> /\ n = 0 /\ k = 3 /\ out = <<>>

\* ---- resampling
InitResample ==
    /\ mic \in Shapes
    /\ apix \in 1..MaxApix
    /\ cutoff \in Cutoffs
    /\ freq_h = <<>> /\ freq_v = <<>> /\ mic_freqs = None
    /\ mic_bin = NoResult /\ unbin_src = "" /\ unbin_shape = <<0, 0>>
    /\ mic_unbin = NoResult
    /\ IdlePatches /\ IdleNext32

\* a caller precomputes the frequency field: get_mic_freqs(mic, apix)
GetMicFreqs ==
    /\ ~mic_freqs.given
    /\ mic_bin = NoResult
    /\ freq_h' = rfftfreq(mic[2], apix)
    /\ freq_v' = fftfreq(mic[1], apix)
    /\ mic_freqs' = get_mic_freqs(mic, apix)
    /\ UNCHANGED <<mic, apix, cutoff, mic_bin, unbin_src, unbin_shape, mic_unbin>>
    /\ UNCHANGED <<patchVars, next32Vars>>

\* bin_mic(mic, apix, cutoff, mic_freqs) with the field precomputed, or None
BinMic ==
    /\ mic_bin = NoResult
    /\ mic_bin' = bin_mic(mic, apix, cutoff, mic_freqs)
    /\ UNCHANGED <<mic, apix, cutoff, freq_h, freq_v, mic_freqs, unbin_src,
                   unbin_shape, mic_unbin>>
    /\ UNCHANGED <<patchVars, next32Vars>>

\* unbin_mic(mic_bin, mic.shape): the binned image back to the original shape
UnbinBinned ==
    /\ mic_unbin = NoResult
    /\ mic_bin.status = "ok"
    /\ unbin_src' = "mic_bin"
    /\ unbin_shape' = mic
    /\ mic_unbin' = unbin_mic(mic_bin.shape, mic)
    /\ UNCHANGED <<mic, apix, cutoff, freq_h, freq_v, mic_freqs, mic_bin>>
    /\ UNCHANGED <<patchVars, next32Vars>>

\* unbin_mic(mic, unbin_shape): any image to any shape
UnbinMic ==
    /\ mic_unbin = NoResult
    /\ \E target \in Shapes :
          /\ unbin_src' = "mic"
          /\ unbin_shape' = target
          /\ mic_unbin' = unbin_mic(mic, target)
    /\ UNCHANGED <<mic, apix, cutoff, freq_h, freq_v, mic_freqs, mic_bin>>
    /\ UNCHANGED <<patchVars, next32Vars>>

NextResample == GetMicFreqs \/ BinMic \/ UnbinBinned \/ UnbinMic

Spec == InitResample /\ [][NextResample]_vars

\* ---- patches and estimators
PatchShapes == (1..MaxPatchDim) \X (1..MaxPatchDim)
Overlaps == {<<a, OverlapDen>> : a \in 0..OverlapDen}
EstDims == UNION {{c - 1, c, c + 1, 2 * c + 1, 3 * c + 1} : c \in {PatchW, SSNRPatchW}}
EstShapes == EstDims \X EstDims

InitPatches ==
    /\ \/ \E img \in PatchShapes, w \in 1..MaxW, o \in Overlaps :
             call = [fn |-> "get_patches", image1 |-> img, image2 |-> img,
                     w |-> w, overlap |-> o]
       \/ \E fn \in {"get_patch_CC", "get_SNR", "get_SSNR"}, i1 \in EstShapes :
             \E i2 \in {i1} \cup {<<d, d>> : d \in EstDims} :
                call = [fn |-> fn, image1 |-> i1, image2 |-> i2,
                        w |-> IF fn = "get_SSNR" THEN SSNRPatchW ELSE PatchW,
                        overlap |-> <<0, 1>>]
    /\ ret = NoResult
    /\ IdleResample /\ IdleNext32

GetPatches ==
    /\ call.fn = "get_patches" /\ ret = NoResult
    /\ ret' = get_patches(call.image1, call.w, call.overlap)
    /\ UNCHANGED <<call, resampleVars, next32Vars>>

GetPatchCC ==
    /\ call.fn = "get_patch_CC" /\ ret = NoResult
    /\ ret' = get_patch_CC(call.image1, call.image2)
    /\ UNCHANGED <<call, resampleVars, next32Vars>>

GetSNR ==
    /\ call.fn = "get_SNR" /\ ret = NoResult
    /\ ret' = get_SNR(call.image1, call.image2)
    /\ UNCHANGED <<call, resampleVars, next32Vars>>

GetSSNR ==
    /\ call.fn = "get_SSNR" /\ ret = NoResult
    /\ ret' = get_SSNR(call.image1, call.image2)
    /\ UNCHANGED <<call, resampleVars, next32Vars>>

NextPatches == GetPatches \/ GetPatchCC \/ GetSNR \/ GetSSNR

SpecPatches == InitPatches /\ [][NextPatches]_vars

\* ---- next32, called on n0[1] and then on n0[2]
InitNext32 ==
    /\ n0 \in (-MaxAbs..MaxAbs) \X (-MaxAbs..MaxAbs)
    /\ n = n0[1]
    /\ k = 1
    /\ out = <<>>
    /\ IdleResample /\ IdlePatches

Next32Loop ==
    /\ k <= 2
    /\ loop_test(n)
    /\ n' = loop_body(n)
    /\ UNCHANGED <<n0, k, out, resampleVars, patchVars>>

Next32Return ==
    /\ k <= 2
    /\ ~loop_test(n)
    /\ out' = Append(out, n)
    /\ k' = k + 1
    /\ n' = IF k = 1 THEN n0[2] ELSE n
    /\ UNCHANGED <<n0, resampleVars, patchVars>>

NextNext32 == Next32Loop \/ Next32Return

SpecNext32 ==
    /\ InitNext32
    /\ [][NextNext32]_vars
    /\ WF_vars(NextNext32)

\* ============================================================= properties
RatLess(a, b) == a[1] * b[2] < b[1] * a[2]
RatLeq(a, b) == a[1] * b[2] <= b[1] * a[2]
RatEq(a, b) == a[1] * b[2] = b[1] * a[2]
Nyquist == <<1, 2 * apix>>
CeilDiv(a, b) == (a + b - 1) \div b

\* ---- C7
\* The axes get_mic_freqs builds, for an image of n_rows x n_cols and pixel size
\* apix, with `last` the value claimed for the last horizontal entry.
FreqAxes(last) ==
    LET n_rows == mic[1]
        n_cols == mic[2]
    IN /\ Len(freq_h) = n_cols \div 2 + 1
       /\ \A j \in 1..(Len(freq_h) - 1) : RatLeq(freq_h[j], freq_h[j + 1])
       /\ RatEq(freq_h[1], <<0, 1>>)
       /\ RatEq(freq_h[Len(freq_h)], last)
       /\ Len(freq_v) = n_rows
       /\ RatEq(freq_v[1], <<0, 1>>)
       /\ \A i \in 0..(n_rows - 1) :
             IF 2 * i < n_rows
             THEN RatEq(freq_v[i + 1], <<i, n_rows * apix>>)
             ELSE /\ RatEq(freq_v[i + 1], <<i - n_rows, n_rows * apix>>)
                  /\ RatLess(freq_v[i + 1], <<0, 1>>)

\* C7 (as amended): get_mic_freqs builds a horizontal axis of n_cols//2+1
\* non-decreasing entries from 0 to (n_cols//2)/(n_cols*apix), which is the
\* Nyquist frequency 1/(2*apix) exactly when n_cols is even and lies below it
\* when n_cols is odd, and a vertical axis of n_rows entries with zero at index
\* 0, i/(n_rows*apix) in the head rows and (i-n_rows)/(n_rows*apix) < 0 in the
\* tail rows.
C7_FreqAxes ==
    mic_freqs.given =>
        /\ FreqAxes(<<mic[2] \div 2, mic[2] * apix>>)
        /\ RatLeq(freq_h[Len(freq_h)], Nyquist)
        /\ RatEq(freq_h[Len(freq_h)], Nyquist) <=> mic[2] % 2 = 0

\* C7 (as stated): the last entry of the horizontal axis equals the Nyquist
\* frequency 1/(2*apix) for every image shape.
C7_LastIsNyquist == mic_freqs.given => FreqAxes(Nyquist)

C7_Witness ==
    /\ mic_freqs.given
    /\ mic[2] % 2 = 1 /\ mic[2] >= 3
    /\ mic[1] >= 4
    /\ apix > 1

\* ---- C10
\* horizontal / vertical frequency of column j / row i of the half-spectrum
HFreq(j) == <<j, mic[2] * apix>>
VFreq(i) == <<i, mic[1] * apix>>
CutoffInRange == RatLess(<<0, 1>>, cutoff) /\ RatLeq(cutoff, Nyquist)
CountH == Cardinality({j \in 0..(mic[2] \div 2) : RatLess(HFreq(j), cutoff)})
CountV == Cardinality({i \in 0..(mic[1] \div 2 - 1) : RatLess(VFreq(i), cutoff)})

\* C10: for 0 < cutoff <= Nyquist fourier_crop returns 2*v_cut rows and c_h
\* columns, c_h the number of horizontal frequencies below the cutoff and v_cut
\* the number of the first n_rows//2 vertical frequencies below it; the rows are
\* source rows 0..v_cut-1 then n_rows-v_cut..n_rows-1, the bands are disjoint
\* and every kept column has a frequency strictly below the cutoff.
C10_FourierCrop ==
    (mic_bin.status # "none" /\ mic_bin.done # <<>> /\ CutoffInRange) =>
        LET crop == mic_bin.crop
            n_rows == mic[1]
        IN /\ crop.shape = <<2 * CountV, CountH>>
           /\ Len(crop.data) = 2 * CountV
           /\ \A r \in 1..(2 * CountV) :
                 /\ Len(crop.data[r]) = CountH
                 /\ \A c \in 1..CountH :
                       crop.data[r][c] =
                          <<IF r <= CountV THEN r - 1
                            ELSE n_rows - CountV + (r - CountV - 1), c - 1>>
           /\ CountV - 1 < n_rows - CountV
           /\ \A c \in 1..crop.shape[2] : RatLess(HFreq(c - 1), cutoff)

C10_Witness ==
    /\ mic_bin.status = "ok"
    /\ CutoffInRange
    /\ mic_bin.crop.shape[1] >= 2
    /\ mic_bin.crop.shape[1] + 2 <= mic[1]
    /\ mic_bin.crop.shape[2] >= 2
    /\ mic_bin.crop.shape[2] < mic[2] \div 2 + 1

\* ---- C1
\* C1: unbin_mic(bin_mic(image, apix, cutoff), (H, W)) has shape exactly (H, W)
\* whenever bin_mic returned an image.
C1_RoundTripShape ==
    (unbin_src = "mic_bin" /\ mic_unbin.status # "none") =>
        mic_unbin.status = "ok" /\ mic_unbin.shape = mic

\* ---- C9
\* C9: for a source half-spectrum of n x m and a target of N x M with N >= n and
\* M >= m, fourier_pad_to_shape returns an N x M array holding source row i at
\* row i for i < n//2 and at row i + (N - n) for i >= n//2, in columns 0..m-1,
\* and zero everywhere else.
C9_PadPlacement ==
    LET src == mic_unbin.src
        pad == mic_unbin.pad
        rows == src.shape[1]
        cols == src.shape[2]
        N == unbin_shape[1]
        M == unbin_shape[2] \div 2 + 1
        from(i, j) ==
            IF j >= cols THEN Zero
            ELSE IF i < rows \div 2 THEN src.data[i + 1][j + 1]
            ELSE IF i >= N - (rows - rows \div 2) THEN src.data[i - (N - rows) + 1][j + 1]
            ELSE Zero
    IN (mic_unbin.status # "none" /\ N >= rows /\ M >= cols) =>
          /\ pad.shape = <<N, M>>
          /\ \A i \in 0..(N - 1), j \in 0..(M - 1) : pad.data[i + 1][j + 1] = from(i, j)

\* ---- C4
\* C4: bin_mic with cutoff <= 0 or cutoff > 1/(2*apix) fails with
\* InvalidArgument before any transform or crop is computed.
C4_CutoffRejected ==
    (mic_bin.status # "none" /\ ~CutoffInRange) =>
        mic_bin.status = "InvalidArgument" /\ mic_bin.done = <<>>

\* ---- C6
\* C6: bin_mic called with mic_freqs = get_mic_freqs(image, apix) has the same
\* outcome as bin_mic called without mic_freqs.
C6_PrecomputedFreqs ==
    (mic_bin.status # "none" /\ mic_freqs.given) =>
        LET omitted == bin_mic(mic, apix, cutoff, None)
        IN /\ mic_bin.status = omitted.status
           /\ mic_bin.status = "ok" =>
                 mic_bin.shape = omitted.shape /\ mic_bin.crop = omitted.crop

\* ---- C2
\* C2: for w < N_x, w < N_y and a step s = floor(w*(1-overlap)) >= 1,
\* get_patches returns ceil((N_x-w)/s) * ceil((N_y-w)/s) patches, each of shape
\* (w, w) and inside the image.
C2_PatchCount ==
    LET N_x == call.image1[1]
        N_y == call.image1[2]
        w == call.w
        s == (w * (call.overlap[2] - call.overlap[1])) \div call.overlap[2]
    IN (call.fn = "get_patches" /\ ret.status # "none"
            /\ w < N_x /\ w < N_y /\ s >= 1) =>
          /\ ret.status = "ok"
          /\ Len(ret.patches) = CeilDiv(N_x - w, s) * CeilDiv(N_y - w, s)
          /\ \A i \in 1..Len(ret.patches) :
                /\ ret.patches[i].shape = <<w, w>>
                /\ ret.patches[i].x >= 0 /\ ret.patches[i].x + w <= N_x
                /\ ret.patches[i].y >= 0 /\ ret.patches[i].y + w <= N_y

C2_Witness ==
    /\ call.fn = "get_patches" /\ ret.status = "ok"
    /\ call.w < call.image1[1] /\ call.w < call.image1[2]
    /\ call.overlap[1] > 0
    /\ Len(ret.X_cd) >= 3 /\ Len(ret.Y_cd) >= 2
    /\ ret.X_cd[2] < call.w

\* ---- C3
\* the patch sets computed in the current state
PatchSets ==
    IF ret.status = "none" THEN {}
    ELSE IF call.fn = "get_patches" THEN {ret}
    ELSE {ret.patches1, ret.patches2}

RowMajor(p) ==
    /\ Len(p.patches) = Len(p.X_cd) * Len(p.Y_cd)
    /\ \A i \in 0..(Len(p.X_cd) - 1), j \in 0..(Len(p.Y_cd) - 1) :
          LET q == p.patches[i * Len(p.Y_cd) + j + 1]
          IN q.x = p.X_cd[i + 1] /\ q.y = p.Y_cd[j + 1]

\* C3: get_patches lists its patches in row-major order, the patch of index
\* i*|Y_cd| + j having its corner at (X_cd[i], Y_cd[j]); for two images of the
\* same shape the patches paired by get_patch_CC and get_SSNR cover the same
\* location, and every patch of the first image is paired.
C3_RowMajorPairs ==
    /\ \A p \in PatchSets : p.status = "ok" => RowMajor(p)
    /\ (ret.status # "none" /\ call.fn # "get_patches"
            /\ call.image1 = call.image2) =>
          /\ ret.status # "IndexError" => Len(ret.pairs) = Len(ret.patches1.patches)
          /\ \A i \in 1..Len(ret.pairs) :
                /\ ret.pairs[i][1] = ret.patches1.patches[i]
                /\ ret.pairs[i][1].x = ret.pairs[i][2].x
                /\ ret.pairs[i][1].y = ret.pairs[i][2].y

C3_Witness ==
    /\ call.fn = "get_patch_CC" /\ ret.status = "ok"
    /\ call.image1 = call.image2
    /\ Len(ret.patches1.X_cd) = 2 /\ Len(ret.patches1.Y_cd) = 3
    /\ Len(ret.pairs) = 6
    /\ ret.pairs[3][2].x = 0 /\ ret.pairs[3][2].y = 2 * PatchW

\* ---- C5
\* C5: when the patch size is >= either image dimension, get_patches returns an
\* empty collection and get_patch_CC, get_SNR and get_SSNR end in
\* InvalidArgument.
C5_EmptyPatchesRejected ==
    (ret.status # "none" /\ (call.w >= call.image1[1] \/ call.w >= call.image1[2])) =>
        IF call.fn = "get_patches"
        THEN ret.status = "ok" => ret.patches = <<>>
        ELSE ret.patches1.patches = <<>> /\ ret.status = "InvalidArgument"

\* ---- C8
Next32Correct(c) ==
    /\ out[c] >= n0[c]
    /\ out[c] % Divisor = 0
    /\ \A m \in n0[c]..(out[c] - 1) : m % Divisor # 0
    /\ n0[c] % Divisor = 0 => out[c] = n0[c]

\* C8: next32 terminates and returns the least multiple of 32 that is >= n, n
\* itself when n is a multiple of 32, and it preserves order.
C8_Next32 ==
    /\ [](\A c \in 1..Len(out) : Next32Correct(c))
    /\ [](k = 3 => ((n0[1] <= n0[2]) => (out[1] <= out[2])))
    /\ <>(k = 3 /\ Len(out) = 2)

C8_Witness ==
    /\ k = 3
    /\ n0[1] < -Divisor /\ out[1] = -Divisor
    /\ n0[2] > Divisor /\ out[2] = 2 * Divisor

====
